---- MODULE Spec2Model ----
(***************************************************************************)
(* The experiment/rollout compiler of tools/codegen/core:                  *)
(*   ExperimentDefinition  (constructor, IsValid, AddRolloutSpecification) *)
(*   ExperimentsCompiler   (AddExperimentDefinition, AddRolloutSpecifica-  *)
(*                          tion, GenerateExperimentsHdr/Src)              *)
(*                                                                         *)
(* Four specifications share the variables:                                *)
(*   SpecValid  one ExperimentDefinition, any constructor arguments, and   *)
(*              IsValid at any current time;                               *)
(*   SpecDef    one ExperimentDefinition driven through                    *)
(*              AddRolloutSpecification and IsValid;                       *)
(*   Spec       one ExperimentsCompiler driven through its public          *)
(*              interface, the generated text left out;                    *)
(*   SpecGen    one ExperimentsCompiler that has read its documents and    *)
(*              generates, the generated text recorded.                    *)
(*                                                                         *)
(* A YAML document is what yaml_cpp_wrapped::YamlLoadAll made of the text: *)
(* a failure or a sequence of nodes.  The decoder is not part of the       *)
(* sources, so the documents are those whose mappings hold every key the   *)
(* code decodes unconditionally with as<T>().  Rendering can fail at the   *)
(* table lookups with std::map::at.  A generated text is the sequence of   *)
(* the pieces appended to the output string.                               *)
(*                                                                         *)
(* Strings are TLA+ strings, except expiry, which ParseTime has to read    *)
(* character by character: an expiry is a sequence of one-character        *)
(* strings.  std::map is a function on its key set, iterated in key order. *)
(* std::vector is a sequence.                                              *)
(***************************************************************************)
EXTENDS Integers, Sequences, FiniteSets, TLC

VARIABLES
    experiment,                \* SpecValid, SpecDef: the ExperimentDefinition object
    experiment_definitions_,   \* Spec, SpecGen: ExperimentsCompiler::experiment_definitions_
    platforms_define_,         \* Spec: ExperimentsCompiler::platforms_define_ (set at construction)
    last                       \* the last call: its arguments, the state before it, its outcome

vars == <<experiment, experiment_definitions_, platforms_define_, last>>

----------------------------------------------------------------------------
(* Bounds *)

MaxRequires == 2     \* requires_ is not grown beyond this length
MaxDocLen == 2       \* nodes per catalogue document
MaxRolloutLen == 1   \* nodes per rollout document

----------------------------------------------------------------------------
(* Character strings (expiry) *)

Digits == <<"0", "1", "2", "3", "4", "5", "6", "7", "8", "9">>

IsDigit(c) == \E i \in 1..10 : Digits[i] = c

DigitVal(c) == (CHOOSE i \in 1..10 : Digits[i] = c) - 1

NeverEver == <<"n", "e", "v", "e", "r", "-", "e", "v", "e", "r">>

\* what "%d"-style formatting of a non-negative number writes
RECURSIVE NatStr(_)
NatStr(n) == IF n < 10 THEN <<Digits[n + 1]>>
             ELSE NatStr(n \div 10) \o <<Digits[(n % 10) + 1]>>

Pad2(n) == IF n < 10 THEN <<"0">> \o NatStr(n) ELSE NatStr(n)

\* the text a catalogue author writes for a date, YYYY-MM-DD
DateStr(y, m, d) == NatStr(y) \o <<"-">> \o Pad2(m) \o <<"-">> \o Pad2(d)

----------------------------------------------------------------------------
(* absl::ParseTime("%Y-%m-%d", ...) and the civil-time conversions *)

\* the number of digits of s from position i on, at most w of them (w = 0: no limit)
RECURSIVE DigitRun(_, _, _)
DigitRun(s, i, w) ==
    IF i > Len(s) \/ ~IsDigit(s[i]) THEN 0
    ELSE IF w = 1 THEN 1
    ELSE 1 + DigitRun(s, i + 1, IF w = 0 THEN 0 ELSE w - 1)

\* the value of the n digits of s that start at position i
RECURSIVE DigitsVal(_, _, _)
DigitsVal(s, i, n) ==
    IF n = 0 THEN 0
    ELSE 10 * DigitsVal(s, i, n - 1) + DigitVal(s[i + n - 1])

IsLeap(y) == (y % 4 = 0 /\ y % 100 # 0) \/ y % 400 = 0

DaysInMonth(y, m) ==
    IF m = 2 THEN (IF IsLeap(y) THEN 29 ELSE 28)
    ELSE IF m \in {4, 6, 9, 11} THEN 30 ELSE 31

\* days from 1970-01-01 to the civil day y-m-d (the proleptic Gregorian count
\* absl::CivilDay uses), for y >= 1
DaysBeforeYear(y) ==
    365 * (y - 1970) + ((y - 1) \div 4 - 1969 \div 4)
                     - ((y - 1) \div 100 - 1969 \div 100)
                     + ((y - 1) \div 400 - 1969 \div 400)

RECURSIVE DaysBeforeMonth(_, _)
DaysBeforeMonth(y, m) ==
    IF m = 1 THEN 0 ELSE DaysBeforeMonth(y, m - 1) + DaysInMonth(y, m - 1)

DaysFromCivil(y, m, d) == DaysBeforeYear(y) + DaysBeforeMonth(y, m) + (d - 1)

\* hours from the epoch to midnight UTC of the civil day: the absl::Time of a parsed date
HoursFromCivil(y, m, d) == 24 * DaysFromCivil(y, m, d)

ParseFailed == [ok |-> FALSE, year |-> 0, month |-> 0, day |-> 0, time |-> 0]

\* %Y takes every digit up to the first non-digit, %m and %d take one or two
\* digits within 1..12 and 1..31, the literal '-' must match, nothing may
\* follow, and the fields must name a day that exists (2025-02-30 is refused).
\* Signs and white space, which ParseTime also accepts, are not in the inputs.
ParseTime(s) ==
    LET ny == DigitRun(s, 1, 0)
        im == ny + 2
        nm == DigitRun(s, im, 2)
        id == im + nm + 1
        nd == DigitRun(s, id, 2)
    IN  IF ny = 0 \/ ny + 1 > Len(s) \/ s[ny + 1] # "-" THEN ParseFailed
        ELSE IF nm = 0 \/ im + nm > Len(s) \/ s[im + nm] # "-" THEN ParseFailed
        ELSE IF nd = 0 \/ id + nd - 1 # Len(s) THEN ParseFailed
        ELSE LET y == DigitsVal(s, 1, ny)
                 m == DigitsVal(s, im, nm)
                 d == DigitsVal(s, id, nd)
             IN  IF m < 1 \/ m > 12 \/ d < 1 \/ d > 31 THEN ParseFailed
                 ELSE IF d > DaysInMonth(y, m) THEN ParseFailed
                 ELSE [ok |-> TRUE, year |-> y, month |-> m, day |-> d,
                       time |-> HoursFromCivil(y, m, d)]

----------------------------------------------------------------------------
(* std::map<std::string, std::string> *)

EmptyMap == <<>>

MapPut(m, k, v) == (k :> v) @@ m

\* every platform name of the model, in std::map key order (lexicographic)
PlatformOrder == <<"ios", "posix", "windows">>

\* the keys of a platform-keyed map in iteration order
Keys(m) == SelectSeq(PlatformOrder, LAMBDA k : k \in DOMAIN m)

\* absl::StrJoin(v, sep)
RECURSIVE StrJoin(_, _)
StrJoin(v, sep) ==
    IF v = <<>> THEN ""
    ELSE IF Len(v) = 1 THEN v[1]
    ELSE v[1] \o sep \o StrJoin(Tail(v), sep)

----------------------------------------------------------------------------
(* ExperimentDefinition *)

ExperimentDefinition_NoOwnerCheck(name, description, owner, expiry, uses_polling, allow_in_fuzzing_config, test_tags, requirements) ==
    [error_ |-> \/ name = ""
                \/ description = ""
                \/ expiry = <<>>
                \/ (name = "monitoring_experiment" /\ expiry # NeverEver),
     name_ |-> name, description_ |-> description, owner_ |-> owner,
     expiry_ |-> expiry, uses_polling_ |-> uses_polling,
     allow_in_fuzzing_config_ |-> allow_in_fuzzing_config,
     test_tags_ |-> test_tags, requires_ |-> requirements,
     defaults_ |-> EmptyMap, additional_constraints_ |-> EmptyMap]

ExperimentDefinition_NoMonitoringCheck(name, description, owner, expiry, uses_polling, allow_in_fuzzing_config, test_tags, requirements) ==
    [error_ |-> \/ name = ""
                \/ description = ""
                \/ owner = ""
                \/ expiry = <<>>,
     name_ |-> name, description_ |-> description, owner_ |-> owner,
     expiry_ |-> expiry, uses_polling_ |-> uses_polling,
     allow_in_fuzzing_config_ |-> allow_in_fuzzing_config,
     test_tags_ |-> test_tags, requires_ |-> requirements,
     defaults_ |-> EmptyMap, additional_constraints_ |-> EmptyMap]

\* the constructor: the members are the arguments, the two maps are empty, and
\* error_ is set by any of the five checks
ExperimentDefinition(name, description, owner, expiry, uses_polling, allow_in_fuzzing_config, test_tags, requirements) ==
    [error_ |-> \/ name = ""
                \/ description = ""
                \/ owner = ""
                \/ expiry = <<>>
                \/ (name = "monitoring_experiment" /\ expiry # NeverEver),
     name_ |-> name, description_ |-> description, owner_ |-> owner,
     expiry_ |-> expiry, uses_polling_ |-> uses_polling,
     allow_in_fuzzing_config_ |-> allow_in_fuzzing_config,
     test_tags_ |-> test_tags, requires_ |-> requirements,
     defaults_ |-> EmptyMap, additional_constraints_ |-> EmptyMap]

\* the constructor with every argument defaulted
DefaultExperimentDefinition ==
    ExperimentDefinition("", "", "", <<>>, FALSE, FALSE, <<>>, <<>>)

\* std::string default_value(platform) const
default_value(e, platform) ==
    IF platform \in DOMAIN e.defaults_ THEN e.defaults_[platform] ELSE "false"

\* std::string additional_constraints(platform) const
additional_constraints(e, platform) ==
    IF platform \in DOMAIN e.additional_constraints_
    THEN e.additional_constraints_[platform] ELSE "false"

InFreezeWindow_Jan15Included(month, day) ==
    month = 11 \/ month = 12 \/ (month = 1 /\ day <= 15)

\* the freeze window test of IsValid on the civil month and day of the expiry
InFreezeWindow(month, day) == month = 11 \/ month = 12 \/ (month = 1 /\ day < 15)

HoursOfTwoQuarters == 24 * 180

IsValid_ExpiredIsInvalid(e, check_expiry, now) ==
    LET t == ParseTime(e.expiry_)
    IN  IF e.error_ THEN [result |-> FALSE, warnings |-> {}]
        ELSE IF e.name_ = "monitoring_experiment" /\ e.expiry_ = NeverEver
             THEN [result |-> TRUE, warnings |-> {}]
        ELSE IF ~t.ok THEN [result |-> FALSE, warnings |-> {}]
        ELSE IF InFreezeWindow(t.month, t.day) THEN [result |-> FALSE, warnings |-> {}]
        ELSE IF ~check_expiry THEN [result |-> TRUE, warnings |-> {}]
        ELSE [result |-> ~e.error_ /\ ~(t.time < now),
              warnings |-> (IF t.time < now THEN {"expired"} ELSE {})
                           \cup (IF t.time > now + HoursOfTwoQuarters
                                 THEN {"far_future"} ELSE {})]

\* bool IsValid(check_expiry) const, at current time now (hours from the epoch):
\* the value returned and the warnings logged
IsValid(e, check_expiry, now) ==
    LET t == ParseTime(e.expiry_)
    IN  IF e.error_ THEN [result |-> FALSE, warnings |-> {}]
        ELSE IF e.name_ = "monitoring_experiment" /\ e.expiry_ = NeverEver
             THEN [result |-> TRUE, warnings |-> {}]
        ELSE IF ~t.ok THEN [result |-> FALSE, warnings |-> {}]
        ELSE IF InFreezeWindow(t.month, t.day) THEN [result |-> FALSE, warnings |-> {}]
        ELSE IF ~check_expiry THEN [result |-> TRUE, warnings |-> {}]
        ELSE [result |-> ~e.error_,
              warnings |-> (IF t.time < now THEN {"expired"} ELSE {})
                           \cup (IF t.time > now + HoursOfTwoQuarters
                                 THEN {"far_future"} ELSE {})]

\* struct RolloutSpecification
RolloutSpecification(name, default_value_, platform_value, requirements) ==
    [name |-> name, default_value |-> default_value_,
     platform_value |-> platform_value, requirements |-> requirements]

\* one turn of the platform loop of AddRolloutSpecification, for platform p,
\* whose value is resolved: the stores into defaults_ and additional_constraints_
StorePlatform_KeepsValue(e, p, value) ==
    [e EXCEPT !.defaults_ = MapPut(@, p, value),
              !.additional_constraints_ =
                  MapPut(@, p, IF e.requires_ = <<>> THEN ""
                               ELSE StrJoin(e.requires_, ", "))]

StorePlatform_DebugAlways(e, p, value) ==
    [e EXCEPT !.defaults_ = MapPut(@, p, "debug"),
              !.additional_constraints_ = MapPut(@, p, StrJoin(e.requires_, ", "))]

StorePlatform(e, p, value) ==
    IF e.requires_ = <<>>
    THEN [e EXCEPT !.defaults_ = MapPut(@, p, value),
                   !.additional_constraints_ = MapPut(@, p, "")]
    ELSE [e EXCEPT !.defaults_ = MapPut(@, p, "debug"),
                   !.additional_constraints_ = MapPut(@, p, StrJoin(e.requires_, ", "))]

RECURSIVE ResolvePlatforms_SkipsMissing(_, _, _)
ResolvePlatforms_SkipsMissing(e, rollout_attributes, keys) ==
    IF keys = <<>> THEN [experiment |-> e, result |-> TRUE]
    ELSE LET p == Head(keys)
         IN  IF rollout_attributes.default_value # ""
             THEN ResolvePlatforms_SkipsMissing(
                      StorePlatform(e, p, rollout_attributes.default_value),
                      rollout_attributes, Tail(keys))
             ELSE IF p \notin DOMAIN rollout_attributes.platform_value
             THEN ResolvePlatforms_SkipsMissing(e, rollout_attributes, Tail(keys))
             ELSE ResolvePlatforms_SkipsMissing(
                      StorePlatform(e, p, rollout_attributes.platform_value[p]),
                      rollout_attributes, Tail(keys))

\* the platform loop over the remaining keys: a platform without a value stops
\* it with error_ set, the platforms before it already stored
RECURSIVE ResolvePlatforms(_, _, _)
ResolvePlatforms(e, rollout_attributes, keys) ==
    IF keys = <<>> THEN [experiment |-> e, result |-> TRUE]
    ELSE LET p == Head(keys)
         IN  IF rollout_attributes.default_value # ""
             THEN ResolvePlatforms(StorePlatform(e, p, rollout_attributes.default_value),
                                   rollout_attributes, Tail(keys))
             ELSE IF p \notin DOMAIN rollout_attributes.platform_value
             THEN [experiment |-> [e EXCEPT !.error_ = TRUE], result |-> FALSE]
             ELSE ResolvePlatforms(StorePlatform(e, p, rollout_attributes.platform_value[p]),
                                   rollout_attributes, Tail(keys))

\* the check that the specification carries a value, after the requirements
\* were appended
CheckHasValue_NoErrorFlag(e, platforms_define, rollout_attributes) ==
    IF rollout_attributes.default_value = "" /\ rollout_attributes.platform_value = EmptyMap
    THEN [experiment |-> e, result |-> FALSE]
    ELSE ResolvePlatforms(e, rollout_attributes, Keys(platforms_define))

CheckHasValue(e, platforms_define, rollout_attributes) ==
    IF rollout_attributes.default_value = "" /\ rollout_attributes.platform_value = EmptyMap
    THEN [experiment |-> [e EXCEPT !.error_ = TRUE], result |-> FALSE]
    ELSE ResolvePlatforms(e, rollout_attributes, Keys(platforms_define))

AddRolloutSpecification_IgnoresError(e, defaults, platforms_define, rollout_attributes) ==
    IF rollout_attributes.name # e.name_ THEN [experiment |-> e, result |-> FALSE]
    ELSE CheckHasValue([e EXCEPT !.requires_ = @ \o rollout_attributes.requirements],
                       platforms_define, rollout_attributes)

\* bool ExperimentDefinition::AddRolloutSpecification(defaults, platforms_define,
\* rollout_attributes): the object afterwards and the value returned
AddRolloutSpecification(e, defaults, platforms_define, rollout_attributes) ==
    IF e.error_ THEN [experiment |-> e, result |-> FALSE]
    ELSE IF rollout_attributes.name # e.name_ THEN [experiment |-> e, result |-> FALSE]
    ELSE CheckHasValue([e EXCEPT !.requires_ = @ \o rollout_attributes.requirements],
                       platforms_define, rollout_attributes)

----------------------------------------------------------------------------
(* The tables the caller hands to the compiler (and, with each call, to       *)
(* ExperimentDefinition::AddRolloutSpecification)                             *)

\* the default tokens the reference tables know
Tokens == {"true", "false", "debug"}

\* defaults: token -> the expression of the metadata table
defaults_ == [t \in Tokens |-> IF t = "debug" THEN "kDefaultForDebugOnly" ELSE t]

\* final_return: token -> the body of the accessor when experiments are final
final_return_ ==
    [t \in Tokens |-> IF t = "true" THEN "true"
                      ELSE IF t = "false" THEN "false"
                      ELSE "\n#ifdef NDEBUG\nfalse;\n#else\ntrue;\n#endif\n"]

\* final_define: token -> the text before the macro name ("" emits no macro)
final_define_ ==
    [t \in Tokens |-> IF t = "true" THEN "#define "
                      ELSE IF t = "false" THEN ""
                      ELSE "#ifndef NDEBUG\n#define "]

\* platforms_define: platform -> guard macro
PlatformGuard == [p \in {"ios", "posix", "windows"} |->
                     IF p = "ios" THEN "GRPC_CFSTREAM"
                     ELSE IF p = "windows" THEN "GPR_WINDOWS" ELSE ""]

PlatformTables ==
    {[p \in S |-> PlatformGuard[p]] : S \in {{}, {"posix"}, {"ios", "posix", "windows"}}}

----------------------------------------------------------------------------
(* Inputs *)

\* expiry texts: dates around the freeze window, dates that do not exist,
\* texts that are no date
ExpiryYears == {2024, 2025}
ExpiryMonths == {1, 2, 3, 10, 11, 12, 13}
ExpiryDays == {1, 10, 14, 15, 16, 29, 30, 31, 32}

ExpiryInputs ==
    {DateStr(y, m, d) : y \in ExpiryYears, m \in ExpiryMonths, d \in ExpiryDays}
    \cup {<<>>, NeverEver,
          <<"2", "0", "2", "5", "-", "3", "-", "1">>,
          <<"2", "0", "2", "5", "/", "0", "3", "/", "0", "1">>,
          <<"2", "0", "2", "5", "-", "0", "3", "-", "0", "1", "x">>}

\* current times, in hours from the epoch
NowInputs == {HoursFromCivil(2024, 6, 1) + 1, HoursFromCivil(2025, 3, 1),
              HoursFromCivil(2026, 1, 1) - 1}

RequirementInputs == {<<>>, <<"bar">>, <<"bar", "baz">>}

RolloutInputs ==
    {RolloutSpecification(n, d, pv, r) :
        n \in {"foo", "bar"},
        d \in {"", "true"},
        pv \in {EmptyMap,
                [p \in {"posix"} |-> "true"],
                [p \in {"ios", "posix", "windows"} |->
                    IF p = "ios" THEN "false" ELSE IF p = "posix" THEN "true" ELSE "debug"]},
        r \in RequirementInputs}

----------------------------------------------------------------------------
(* SpecValid: construction and IsValid *)

InitValid ==
    /\ \E name \in {"", "foo", "monitoring_experiment"},
          description \in {"", "desc"},
          owner \in {"", "owner"},
          expiry \in ExpiryInputs :
          experiment = ExperimentDefinition(name, description, owner, expiry,
                                            FALSE, TRUE, <<>>, <<>>)
    /\ experiment_definitions_ = EmptyMap
    /\ platforms_define_ = EmptyMap
    /\ last = [op |-> "ExperimentDefinition"]

\* a call of IsValid on the object
CallIsValid ==
    /\ \E check_expiry \in BOOLEAN, now \in NowInputs :
          LET out == IsValid(experiment, check_expiry, now)
          IN  last' = [op |-> "IsValid", check_expiry |-> check_expiry, now |-> now,
                       result |-> out.result, warnings |-> out.warnings]
    /\ UNCHANGED <<experiment, experiment_definitions_, platforms_define_>>

NextValid == CallIsValid

SpecValid == InitValid /\ [][NextValid]_vars

----------------------------------------------------------------------------
(* SpecDef: construction, AddRolloutSpecification and IsValid *)

InitDef ==
    /\ \E name \in {"", "foo"},
          description \in {"", "desc"},
          expiry \in {DateStr(2025, 3, 1), DateStr(2025, 12, 1)},
          requirements \in {<<>>, <<"qux">>} :
          experiment = ExperimentDefinition(name, description, "owner", expiry,
                                            FALSE, TRUE, <<>>, requirements)
    /\ experiment_definitions_ = EmptyMap
    /\ platforms_define_ = EmptyMap
    /\ last = [op |-> "ExperimentDefinition"]

\* a call of AddRolloutSpecification on the object
CallAddRolloutSpecification ==
    /\ \E platforms_define \in PlatformTables, rollout \in RolloutInputs :
          /\ Len(experiment.requires_) + Len(rollout.requirements) <= MaxRequires
          /\ LET out == AddRolloutSpecification(experiment, defaults_, platforms_define,
                                                rollout)
             IN  /\ experiment' = out.experiment
                 /\ last' = [op |-> "AddRolloutSpecification", before |-> experiment,
                             platforms_define |-> platforms_define,
                             rollout |-> rollout, result |-> out.result]
    /\ UNCHANGED <<experiment_definitions_, platforms_define_>>

NextDef == CallAddRolloutSpecification \/ CallIsValid

SpecDef == InitDef /\ [][NextDef]_vars

----------------------------------------------------------------------------
(* ExperimentsCompiler: the documents *)

\* what yaml_cpp_wrapped::YamlLoadAll returns: a failure, or the nodes of the
\* document.  A node is a mapping or something else (a scalar, a sequence).
\* A mapping holds the value of every key the code decodes with as<T>(); for
\* the rollout keys that the code tests with IsDefined, keys says which are
\* present.
ParseFailure == [ok |-> FALSE, value |-> <<>>]

Parsed(nodes) == [ok |-> TRUE, value |-> nodes]

NonMapNode == [is_map |-> FALSE]

CatalogueNode(name, description, owner, expiry, uses_polling, allow_in_fuzzing_config, test_tags) ==
    [is_map |-> TRUE, name |-> name, description |-> description, owner |-> owner,
     expiry |-> expiry, uses_polling |-> uses_polling,
     allow_in_fuzzing_config |-> allow_in_fuzzing_config, test_tags |-> test_tags]

RolloutNode(name, keys, default_value_, platform_value, requirements) ==
    [is_map |-> TRUE, name |-> name, keys |-> keys, default_value |-> default_value_,
     platform_value |-> platform_value, requirements |-> requirements]

\* value[key].IsDefined()
IsDefined(value, key) == key \in value.keys

\* the sequences over S of length at most n
SeqsUpTo(S, n) == UNION {[1..k -> S] : k \in 0..n}

----------------------------------------------------------------------------
(* ExperimentsCompiler::AddExperimentDefinition *)

Emplace_Overwrites(m, k, v) == (k :> v) @@ m

\* std::map::emplace(k, v): inserts only when no entry has the key
Emplace(m, k, v) == IF k \in DOMAIN m THEN m ELSE (k :> v) @@ m

\* the loop over the nodes of the catalogue: the map afterwards
RECURSIVE AddDefinitions(_, _)
AddDefinitions(defs, nodes) ==
    IF nodes = <<>> THEN defs
    ELSE LET value == Head(nodes)
         IN  IF value.is_map
             THEN AddDefinitions(
                      Emplace(defs, value.name,
                              ExperimentDefinition(value.name, value.description,
                                                   value.owner, value.expiry,
                                                   value.uses_polling,
                                                   value.allow_in_fuzzing_config,
                                                   value.test_tags, <<>>)),
                      Tail(nodes))
             ELSE AddDefinitions(defs, Tail(nodes))

\* absl::Status AddExperimentDefinition(experiments_yaml_content), on what
\* YamlLoadAll made of the text: the map afterwards and the status
CompilerAddExperimentDefinition(defs, result) ==
    IF ~result.ok THEN [definitions |-> defs, status |-> "INVALID_ARGUMENT"]
    ELSE [definitions |-> AddDefinitions(defs, result.value), status |-> "OK"]

----------------------------------------------------------------------------
(* ExperimentsCompiler::AddRolloutSpecification *)

\* the RolloutSpecification built from a mapping that has default_value or
\* platform_value: with default_value, the platform values and the
\* requirements of the mapping are not read
RolloutOfNode(value) ==
    IF IsDefined(value, "default_value")
    THEN RolloutSpecification(value.name, value.default_value, EmptyMap, <<>>)
    ELSE RolloutSpecification(value.name, "", value.platform_value, value.requirements)

ApplyRollout_SkipsUnknown(defs, platforms_define, rollout_specification) ==
    IF rollout_specification.name \notin DOMAIN defs
    THEN [definitions |-> defs, success |-> TRUE]
    ELSE LET out == AddRolloutSpecification(defs[rollout_specification.name], defaults_,
                                            platforms_define, rollout_specification)
         IN  [definitions |-> [defs EXCEPT ![rollout_specification.name] = out.experiment],
              success |-> out.result]

\* experiment_definitions_[name].AddRolloutSpecification(...): operator[] puts
\* a default-constructed ExperimentDefinition under a name that has no entry
ApplyRollout(defs, platforms_define, rollout_specification) ==
    LET name == rollout_specification.name
        with == IF name \in DOMAIN defs THEN defs
                ELSE (name :> DefaultExperimentDefinition) @@ defs
        out == AddRolloutSpecification(with[name], defaults_, platforms_define,
                                       rollout_specification)
    IN  [definitions |-> [with EXCEPT ![name] = out.experiment], success |-> out.result]

\* the loop over the nodes of the rollout document: it returns at the first
\* mapping without a value and at the first refused or failed merge
RECURSIVE AddRollouts(_, _, _)
AddRollouts(defs, platforms_define, nodes) ==
    IF nodes = <<>> THEN [definitions |-> defs, status |-> "OK"]
    ELSE LET value == Head(nodes)
         IN  IF ~value.is_map THEN AddRollouts(defs, platforms_define, Tail(nodes))
             ELSE IF ~IsDefined(value, "default_value") /\ ~IsDefined(value, "platform_value")
             THEN [definitions |-> defs, status |-> "INVALID_ARGUMENT"]
             ELSE LET out == ApplyRollout(defs, platforms_define, RolloutOfNode(value))
                  IN  IF ~out.success
                      THEN [definitions |-> out.definitions, status |-> "INVALID_ARGUMENT"]
                      ELSE AddRollouts(out.definitions, platforms_define, Tail(nodes))

\* absl::Status AddRolloutSpecification(experiments_rollout_yaml_content)
CompilerAddRolloutSpecification(defs, platforms_define, result) ==
    IF ~result.ok THEN [definitions |-> defs, status |-> "INVALID_ARGUMENT"]
    ELSE AddRollouts(defs, platforms_define, result.value)

----------------------------------------------------------------------------
(* ExperimentsCompiler::GenerateExperimentsHdr and GenerateExperimentsSrc *)

\* the platforms a header or a source has an arm for: the keys of the platform
\* table but posix, in key order, then posix
RenderedPlatforms(platforms_define) ==
    SelectSeq(Keys(platforms_define), LAMBDA p : p # "posix") \o <<"posix">>

Range(f) == {f[x] : x \in DOMAIN f}

\* _GenerateHeader: whether every final_define().at(...) and
\* final_return().at(...) of the arms finds its key; std::map::at throws
\* std::out_of_range on a token the table does not hold
HeaderLookupsFind(defs, platforms_define) ==
    \A p \in Range(RenderedPlatforms(platforms_define)), n \in DOMAIN defs :
        /\ default_value(defs[n], p) \in DOMAIN final_define_
        /\ default_value(defs[n], p) \in DOMAIN final_return_

\* _GenerateSource: whether every defaults().at(...) of the arms finds its key
SourceLookupsFind(defs, platforms_define) ==
    \A p \in Range(RenderedPlatforms(platforms_define)), n \in DOMAIN defs :
        default_value(defs[n], p) \in DOMAIN defaults_

GeneratorForMode_FallsBackToOss(mode) ==
    IF mode = "grpc_google3" THEN "GrpcGoogle3ExperimentsOutputGenerator"
    ELSE "GrpcOssExperimentsOutputGenerator"

\* the generator the mode selects, "" for an unsupported mode
GeneratorForMode(mode) ==
    IF mode = "grpc_google3" THEN "GrpcGoogle3ExperimentsOutputGenerator"
    ELSE IF mode = "grpc_oss_production" \/ mode = "grpc_oss_test"
    THEN "GrpcOssExperimentsOutputGenerator"
    ELSE ""

\* absl::StatusOr<std::string> _GenerateExperimentsHdr(mode): contents, a
\* failure status, or the exception of a failed lookup
GenerateExperimentsHdrContents(defs, platforms_define, mode) ==
    IF GeneratorForMode(mode) = "" THEN "INVALID_ARGUMENT"
    ELSE IF HeaderLookupsFind(defs, platforms_define) THEN "contents"
    ELSE "out_of_range"

\* absl::StatusOr<std::string> _GenerateExperimentsSrc(header_file_path, mode)
GenerateExperimentsSrcContents(defs, platforms_define, mode) ==
    IF GeneratorForMode(mode) = "" THEN "INVALID_ARGUMENT"
    ELSE IF SourceLookupsFind(defs, platforms_define) THEN "contents"
    ELSE "out_of_range"

\* absl::Status _WriteToFile(output_file, contents), io being what the file
\* system does: "ok", "open_failed" or "close_failed"
WriteToFile(io) == IF io = "ok" THEN "OK" ELSE "INTERNAL"

\* the part of both Generate functions after the contents were asked for: the
\* status returned ("THROWN": the exception leaves the function) and the
\* number of calls of _WriteToFile
WriteContents(contents, io) ==
    IF contents = "out_of_range" THEN [status |-> "THROWN", write_attempts |-> 0]
    ELSE IF contents # "contents" THEN [status |-> contents, write_attempts |-> 0]
    ELSE [status |-> WriteToFile(io), write_attempts |-> 1]

\* absl::Status GenerateExperimentsHdr(output_file, mode)
GenerateExperimentsHdr(defs, platforms_define, mode, io) ==
    WriteContents(GenerateExperimentsHdrContents(defs, platforms_define, mode), io)

\* absl::Status GenerateExperimentsSrc(output_file, header_file_path, mode)
GenerateExperimentsSrc(defs, platforms_define, mode, io) ==
    WriteContents(GenerateExperimentsSrcContents(defs, platforms_define, mode), io)

----------------------------------------------------------------------------
(* Spec: one ExperimentsCompiler *)

ValidExpiry == DateStr(2025, 3, 1)

CatalogueNodeInputs ==
    {CatalogueNode(n[1], n[2], "owner", ValidExpiry, FALSE, TRUE, <<>>) :
        n \in {<<"foo", "first">>, <<"foo", "second">>, <<"bar", "first">>}}

FullPlatformValue ==
    [p \in {"ios", "posix", "windows"} |->
        IF p = "ios" THEN "false" ELSE IF p = "posix" THEN "true" ELSE "debug"]

\* rollout mappings: with default_value (and requirements), with an unknown
\* token, with platform_value for every platform or for posix only, with
\* neither value, and for a second name
RolloutNodeInputs ==
    { RolloutNode("foo", {"default_value", "requirements"}, "true", EmptyMap, <<"baz">>),
      RolloutNode("foo", {"default_value"}, "maybe", EmptyMap, <<>>),
      RolloutNode("foo", {"platform_value", "requirements"}, "", FullPlatformValue, <<"baz">>),
      RolloutNode("foo", {"platform_value", "requirements"}, "",
                  [p \in {"posix"} |-> "false"], <<>>),
      RolloutNode("foo", {"requirements"}, "", EmptyMap, <<"baz">>),
      RolloutNode("bar", {"default_value"}, "true", EmptyMap, <<>>),
      NonMapNode }

ModeInputs == {"grpc_google3", "grpc_oss_production", "grpc_oss_test", "bogus_mode"}

IoInputs == {"ok", "open_failed"}

\* the platform tables a compiler is constructed with
CompilerPlatformTables == {t \in PlatformTables : "posix" \in DOMAIN t}

RequiresWithinBound(defs) == \A n \in DOMAIN defs : Len(defs[n].requires_) <= MaxRequires

Init ==
    /\ experiment = DefaultExperimentDefinition
    /\ experiment_definitions_ = EmptyMap
    /\ platforms_define_ \in CompilerPlatformTables
    /\ last = [op |-> "ExperimentsCompiler"]

CallCompilerAddExperimentDefinition ==
    /\ \E result \in {ParseFailure} \cup {Parsed(d) : d \in SeqsUpTo(CatalogueNodeInputs, MaxDocLen)} :
          LET out == CompilerAddExperimentDefinition(experiment_definitions_, result)
          IN  /\ experiment_definitions_' = out.definitions
              /\ last' = [op |-> "AddExperimentDefinition", before |-> experiment_definitions_,
                          result |-> result, status |-> out.status]
    /\ UNCHANGED <<experiment, platforms_define_>>

CallCompilerAddRolloutSpecification ==
    /\ \E result \in {ParseFailure} \cup {Parsed(d) : d \in SeqsUpTo(RolloutNodeInputs, MaxRolloutLen)} :
          LET out == CompilerAddRolloutSpecification(experiment_definitions_,
                                                     platforms_define_, result)
          IN  /\ RequiresWithinBound(out.definitions)
              /\ experiment_definitions_' = out.definitions
              /\ last' = [op |-> "AddRolloutSpecification", before |-> experiment_definitions_,
                          result |-> result, status |-> out.status]
    /\ UNCHANGED <<experiment, platforms_define_>>

CallGenerateExperimentsHdr ==
    /\ \E mode \in ModeInputs, io \in IoInputs :
          LET out == GenerateExperimentsHdr(experiment_definitions_, platforms_define_, mode, io)
          IN  last' = [op |-> "GenerateExperimentsHdr", mode |-> mode, io |-> io,
                       status |-> out.status, write_attempts |-> out.write_attempts]
    /\ UNCHANGED <<experiment, experiment_definitions_, platforms_define_>>

CallGenerateExperimentsSrc ==
    /\ \E mode \in ModeInputs, io \in IoInputs :
          LET out == GenerateExperimentsSrc(experiment_definitions_, platforms_define_, mode, io)
          IN  last' = [op |-> "GenerateExperimentsSrc", mode |-> mode, io |-> io,
                       status |-> out.status, write_attempts |-> out.write_attempts]
    /\ UNCHANGED <<experiment, experiment_definitions_, platforms_define_>>

Next ==
    \/ CallCompilerAddExperimentDefinition
    \/ CallCompilerAddRolloutSpecification
    \/ CallGenerateExperimentsHdr
    \/ CallGenerateExperimentsSrc

Spec == Init /\ [][Next]_vars

----------------------------------------------------------------------------
(* The text the output generators write. An output is the sequence of the    *)
(* pieces appended to it, one piece for each absl::StrAppend call; the file  *)
(* is their concatenation.                                                    *)

LowerCase == <<"a", "b", "c", "d", "e", "f", "g", "h", "i", "j", "k", "l", "m",
               "n", "o", "p", "q", "r", "s", "t", "u", "v", "w", "x", "y", "z">>

UpperCase == <<"A", "B", "C", "D", "E", "F", "G", "H", "I", "J", "K", "L", "M",
               "N", "O", "P", "Q", "R", "S", "T", "U", "V", "W", "X", "Y", "Z">>

\* std::toupper(c) in the "C" locale
toupper(c) ==
    IF \E i \in 1..26 : LowerCase[i] = c
    THEN UpperCase[CHOOSE i \in 1..26 : LowerCase[i] = c]
    ELSE c

\* the string of a sequence of characters
RECURSIVE Str(_)
Str(cs) == IF cs = <<>> THEN "" ELSE Head(cs) \o Str(Tail(cs))

\* the experiment and requirement names of the model, character by character
Spellings == {<<>>, <<"f", "o", "o">>, <<"b", "a", "r">>, <<"b", "a", "z">>,
              <<"q", "u", "x">>, <<"n", "e", "w", "_", "c", "a", "r">>}

\* the characters of a name
Chars(s) == CHOOSE cs \in Spellings : Str(cs) = s

\* absl::AsciiStrToUpper(s)
AsciiStrToUpper(s) ==
    LET cs == Chars(s) IN Str([i \in 1..Len(cs) |-> toupper(cs[i])])

\* the loop of SnakeToPascal over the remaining characters
RECURSIVE PascalCase(_, _)
PascalCase(cs, capitalize_next) ==
    IF cs = <<>> THEN <<>>
    ELSE IF Head(cs) = "_" THEN PascalCase(Tail(cs), TRUE)
    ELSE IF capitalize_next THEN <<toupper(Head(cs))>> \o PascalCase(Tail(cs), FALSE)
    ELSE <<Head(cs)>> \o PascalCase(Tail(cs), FALSE)

\* std::string SnakeToPascal(snake_case)
SnakeToPascal(snake_case) == Str(PascalCase(Chars(snake_case), TRUE))

\* absl::CivilYear(absl::ToCivilDay(now, UTC)).year(), now in hours from the epoch
CivilYear(now) ==
    LET d == now \div 24
    IN  CHOOSE y \in (1970 + d \div 366)..(1970 + d \div 365) :
            DaysBeforeYear(y) <= d /\ d < DaysBeforeYear(y + 1)

CopyrightLicence ==
    "// Licensed under the Apache License, // version 2.0 (the \"License\");\n// you may not use this file except in // compliance with the License.\n// You may obtain a copy of the License at\n// \n//     http://www.apache.org/licenses/LICENSE-2.0\n// \n// Unless required by applicable law or // agreed to in writing, software\n// distributed under the License is // distributed on an \"AS IS\" BASIS,\n// WITHOUT WARRANTIES OR CONDITIONS OF ANY // KIND, either express or implied.\n// See the License for the specific // language governing permissions and\n// limitations under the License.\n//\n//\n//\n"

GetCopyright_WritesTheHour(now) ==
    "// Copyright " \o Str(NatStr(now)) \o " The gRPC Authors\n" \o CopyrightLicence

\* std::string GetCopyright(), called at time now
GetCopyright(now) ==
    "// Copyright " \o Str(NatStr(CivilYear(now))) \o " The gRPC Authors\n" \o CopyrightLicence

\* _GRPC_CODEGEN_PLACEHOLDER_TEXT
GetGrpcCodegenPlaceholderText ==
    "\n  This file contains the autogenerated parts of the experiments API.\n  \n  It generates two symbols for each experiment.\n  \n  For the experiment named new_car_project, it generates:\n  \n  - a function IsNewCarProjectEnabled() that returns true if the experiment\n    should be enabled at runtime.\n  \n  - a macro GRPC_EXPERIMENT_IS_INCLUDED_NEW_CAR_PROJECT that is defined if the\n    experiment *could* be enabled at runtime.\n  \n  The function is used to determine whether to run the experiment or\n  non-experiment code path.\n  \n  If the experiment brings significant bloat, the macro can be used to avoid\n  including the experiment code path in the binary for binaries that are size\n  sensitive.\n  \n  By default that includes our iOS and Android builds.\n  \n  Finally, a small array is included that contains the metadata for each\n  experiment.\n  \n  A macro, GRPC_EXPERIMENTS_ARE_FINAL, controls whether we fix experiment\n  configuration at build time (if it's defined) or allow it to be tuned at\n  runtime (if it's disabled).\n  \n  If you are using the Bazel build system, that macro can be configured with\n  --define=grpc_experiments_are_final=true\n  "

\* PutBanner(prefix, lines, output): the pieces appended
PutBanner(prefix, lines) == [i \in 1..Len(lines) |-> prefix \o lines[i] \o "\n"]

RECURSIVE Flatten(_)
Flatten(ss) == IF ss = <<>> THEN <<>> ELSE Head(ss) \o Flatten(Tail(ss))

\* every key experiment_definitions_ takes in the model, in std::map key order
ExperimentOrder == <<"", "bar", "baz", "foo", "new_car", "qux">>

\* the entries of experiment_definitions_ in iteration order
Experiments(defs) ==
    LET keys == SelectSeq(ExperimentOrder, LAMBDA k : k \in DOMAIN defs)
    IN  [i \in 1..Len(keys) |-> defs[keys[i]]]

\* the "#if defined" line of the i-th platform that is not posix
PlatformArm(platforms_define, platforms, i) ==
    IF i = 1 THEN "#if defined(" \o platforms_define[platforms[i]] \o ")\n"
    ELSE "elif defined(" \o platforms_define[platforms[i]] \o ")\n"

\* the platforms of the table but posix, in key order
NonPosix(platforms_define) == SelectSeq(Keys(platforms_define), LAMBDA p : p # "posix")

\* _GenerateExperimentsHdrForPlatform(output, platform)
GenerateExperimentsHdrForPlatform(defs, platform) ==
    LET es == Experiments(defs)
        pieces(e) ==
            (IF final_define_[default_value(e, platform)] # ""
             THEN <<final_define_[default_value(e, platform)]
                        \o "GRPC_EXPERIMENT_IS_INCLUDED_" \o AsciiStrToUpper(e.name_) \o "\n">>
             ELSE <<>>)
            \o <<"inline bool Is" \o SnakeToPascal(e.name_) \o "Enabled() { return "
                    \o final_return_[default_value(e, platform)] \o "; }\n">>
    IN  Flatten([i \in 1..Len(es) |-> pieces(es[i])])

include_guard == "GRPC_SRC_CORE_LIB_EXPERIMENTS_EXPERIMENTS_H"

\* _GenerateHeader(output, mode)
GenerateHeaderBody(defs, platforms_define, mode) ==
    LET es == Experiments(defs)
        platforms == NonPosix(platforms_define)
    IN  <<"#ifndef " \o include_guard \o "\n",
          "#define " \o include_guard \o "\n",
          "#include <grpc/support/port_platform.h>\n",
          "#include \"src/core/lib/experiments/config.h\"\n",
          "namespace grpc_core {\n",
          "#ifdef GRPC_EXPERIMENTS_ARE_FINAL\n">>
        \o Flatten([i \in 1..Len(platforms) |->
                      <<PlatformArm(platforms_define, platforms, i)>>
                      \o GenerateExperimentsHdrForPlatform(defs, platforms[i])])
        \o <<"\n#else\n">>
        \o GenerateExperimentsHdrForPlatform(defs, "posix")
        \o <<"#endif\n", "\n#else\n", " enum ExperimentIds {\n">>
        \o [i \in 1..Len(es) |-> "  kExperimentId{" \o SnakeToPascal(es[i].name_) \o ",\n"]
        \o <<"  {" \o "kNumExperiments" \o "}\n};\n">>
        \o Flatten([i \in 1..Len(es) |->
                      <<"#define GRPC_EXPERIMENT_IS_INCLUDED_"
                            \o AsciiStrToUpper(es[i].name_) \o "\n",
                        "inline bool Is" \o SnakeToPascal(es[i].name_)
                            \o "Enabled() { return IsExperimentEnabled<kExperimentId"
                            \o SnakeToPascal(es[i].name_) \o ">(); }\n">>])
        \o <<"extern const ExperimentMetadata" \o "g_experiment_metadata" \o "["
                \o "kNumExperiments" \o "];\n",
             "#endif\n",
             "}  // namespace grpc_core\n",
             "#endif  // " \o include_guard \o "\n">>

\* the declaration of the requirements array of an experiment: none when it
\* has no requirements
RequiredExperimentsArray(e) ==
    IF e.requires_ = <<>> THEN <<>>
    ELSE <<"const uint8_t required_experiments_" \o e.name_ \o "[] = {"
              \o StrJoin([i \in 1..Len(e.requires_) |->
                            "static_cast<uint8_t>(grpc_core::kExperimentId"
                                \o SnakeToPascal(e.requires_[i]) \o ")"], ",")
              \o "};\n">>

\* the row of the metadata table for an experiment
MetadataRow(e, platform) ==
    "  {" \o e.name_ \o ", description_" \o e.name_
          \o ", additional_constraints_" \o e.name_ \o ", "
          \o ("required_experiments_"
                 \o (IF e.requires_ = <<>> THEN "nullptr" ELSE StrJoin(e.requires_, ", ")))
          \o ", " \o Str(NatStr(Len(e.requires_)))
          \o ", " \o defaults_[default_value(e, platform)]
          \o ", " \o (IF e.allow_in_fuzzing_config_ THEN "true" ELSE "false") \o "},"

\* the name of the metadata table
experiments_metadata_var_name(mode) ==
    IF mode = "test" THEN "g_test_experiment_metadata" ELSE "g_experiment_metadata"

\* _GenerateExperimentsSrcForPlatform(output, platform, mode)
GenerateExperimentsSrcForPlatform(defs, platform, mode) ==
    LET es == Experiments(defs)
        default_for_debug_only ==
            \E i \in 1..Len(es) :
                defaults_[default_value(es[i], platform)] = "kDefaultForDebugOnly"
    IN  <<"namespace {\n">>
        \o Flatten([i \in 1..Len(es) |->
                      <<"const char* const description_" \o es[i].name_ \o " = "
                            \o es[i].description_ \o ";\n",
                        "const char* const additional_constraints_" \o es[i].name_ \o " = "
                            \o additional_constraints(es[i], platform) \o ";\n">>
                      \o RequiredExperimentsArray(es[i])])
        \o (IF default_for_debug_only
            THEN <<"#ifdef NDEBUG\n", "const bool kDefaultForDebugOnly = false;\n",
                   "#else\n", "const bool kDefaultForDebugOnly = true;\n", "#endif\n">>
            ELSE <<>>)
        \o <<"}\n\n", "namespace grpc_core {\n\n",
             "const ExperimentMetadata " \o experiments_metadata_var_name(mode) \o "[] = {\n">>
        \o [i \in 1..Len(es) |-> MetadataRow(es[i], platform)]
        \o <<"};\n\n", "}  // namespace grpc_core\n">>

\* a sequence without the first of its elements equal to x
RECURSIVE RemoveFirst(_, _)
RemoveFirst(segments, x) ==
    IF segments = <<>> THEN <<>>
    ELSE IF Head(segments) = x THEN Tail(segments)
    ELSE <<Head(segments)>> \o RemoveFirst(Tail(segments), x)

\* the path of the include: header_file_path, given in segments of which
\* ".github" is one wherever the path contains that text, without its first
\* ".github"
header_file_path_without_github(header_file_path) ==
    StrJoin(RemoveFirst(header_file_path, ".github"), "")

\* _GenerateSource(output, header_file_path, mode). any_requires is declared
\* without a value and assigned true when an experiment has requirements;
\* indeterminate is what the read at line 501 yields when it was not assigned
GenerateSourceBody(defs, platforms_define, header_file_path, mode, indeterminate) ==
    LET es == Experiments(defs)
        platforms == NonPosix(platforms_define)
        any_requires ==
            IF \E i \in 1..Len(es) : es[i].requires_ # <<>> THEN TRUE ELSE indeterminate
    IN  <<"#include <grpc/support/port_platform.h>\n\n">>
        \o (IF any_requires THEN <<"#include <stdint.h>\n\n">> ELSE <<>>)
        \o <<"#include \"" \o header_file_path_without_github(header_file_path) \o "\"\n",
             "#ifdef GRPC_EXPERIMENTS_ARE_FINAL\n">>
        \o Flatten([i \in 1..Len(platforms) |->
                      <<PlatformArm(platforms_define, platforms, i)>>
                      \o GenerateExperimentsSrcForPlatform(defs, platforms[i], mode)])
        \o <<"\n#else\n">>
        \o GenerateExperimentsSrcForPlatform(defs, "posix", mode)
        \o <<"#endif\n", "\n#endif\n">>

\* the first banner line of a generator
AutoGeneratedBy(generator) ==
    IF generator = "GrpcGoogle3ExperimentsOutputGenerator"
    THEN " Auto generated by tools/codegen/core/gen_experiments_grpc_google3.cc"
    ELSE " Auto generated by tools/codegen/core/gen_experiments_grpc_oss.cc"

\* the mode_ the generator of a mode is constructed with ("" for the google3
\* generator, which has none and passes the default argument)
GeneratorMode(mode) ==
    IF mode = "grpc_oss_production" THEN "production"
    ELSE IF mode = "grpc_oss_test" THEN "test" ELSE ""

\* GenerateHeader(output) of the generator of a supported mode, at time now
GenerateHeader(defs, platforms_define, mode, now) ==
    <<GetCopyright(now)>>
    \o PutBanner("//", <<AutoGeneratedBy(GeneratorForMode(mode)), GetGrpcCodegenPlaceholderText>>)
    \o GenerateHeaderBody(defs, platforms_define, GeneratorMode(mode))

\* GenerateSource(output) of the generator of a supported mode, at time now
GenerateSource(defs, platforms_define, header_file_path, mode, now, indeterminate) ==
    <<GetCopyright(now)>>
    \o PutBanner("//", <<AutoGeneratedBy(GeneratorForMode(mode))>>)
    \o GenerateSourceBody(defs, platforms_define, header_file_path,
                          GeneratorMode(mode), indeterminate)

----------------------------------------------------------------------------
(* SpecGen: a compiler that has read a catalogue and a rollout document and  *)
(* then generates, the generated text recorded                                *)

\* current times around the turn of a year, in hours from the epoch
GenNowInputs == {HoursFromCivil(2025, 12, 31) + 23, HoursFromCivil(2026, 1, 1),
                 HoursFromCivil(2026, 1, 1) + 1}

HeaderFilePathInputs == {<<"src/core/lib/experiments/experiments", ".github", ".h">>}

\* catalogue mappings: two experiments, one of them not allowed in fuzzing
GenCatalogueNodeInputs ==
    {CatalogueNode("foo", "first", "owner", ValidExpiry, FALSE, TRUE, <<>>),
     CatalogueNode("new_car", "third", "owner", ValidExpiry, FALSE, FALSE, <<>>)}

\* rollout mappings: with platform_value and a requirement, with
\* default_value, with an unknown token, and for a name that was not declared
GenRolloutNodeInputs ==
    {RolloutNode("foo", {"platform_value", "requirements"}, "", FullPlatformValue, <<"baz">>),
     RolloutNode("foo", {"default_value"}, "maybe", EmptyMap, <<>>),
     RolloutNode("new_car", {"default_value"}, "true", EmptyMap, <<>>),
     RolloutNode("bar", {"default_value"}, "true", EmptyMap, <<>>)}

InitGen ==
    /\ experiment = DefaultExperimentDefinition
    /\ platforms_define_ \in CompilerPlatformTables
    /\ \E catalogue \in SeqsUpTo(GenCatalogueNodeInputs, MaxDocLen),
          rollout \in SeqsUpTo(GenRolloutNodeInputs, MaxRolloutLen) :
          LET declared == CompilerAddExperimentDefinition(EmptyMap, Parsed(catalogue))
              merged == CompilerAddRolloutSpecification(declared.definitions,
                                                        platforms_define_, Parsed(rollout))
          IN  /\ RequiresWithinBound(merged.definitions)
              /\ experiment_definitions_ = merged.definitions
    /\ last = [op |-> "ExperimentsCompiler"]

NotRendered == [rendered |-> FALSE, now |-> 0, contents |-> <<>>]

\* GenerateExperimentsHdr(output_file, mode) at time now; contents is the text
\* handed to _WriteToFile, previous the rendering of the call before when that
\* was a GenerateExperimentsHdr of the same mode
CallGenerateExperimentsHdrAt ==
    /\ \E mode \in ModeInputs, io \in IoInputs, now \in GenNowInputs :
          LET out == GenerateExperimentsHdr(experiment_definitions_, platforms_define_, mode, io)
              rendered == GenerateExperimentsHdrContents(experiment_definitions_,
                                                         platforms_define_, mode) = "contents"
          IN  last' = [op |-> "GenerateExperimentsHdr", mode |-> mode, io |-> io, now |-> now,
                       status |-> out.status, write_attempts |-> out.write_attempts,
                       rendered |-> rendered,
                       contents |-> IF rendered
                                    THEN GenerateHeader(experiment_definitions_,
                                                        platforms_define_, mode, now)
                                    ELSE <<>>,
                       previous |-> IF last.op = "GenerateExperimentsHdr" /\ last.mode = mode
                                       /\ last.rendered
                                    THEN [rendered |-> last.rendered, now |-> last.now,
                                          contents |-> last.contents]
                                    ELSE NotRendered]
    /\ UNCHANGED <<experiment, experiment_definitions_, platforms_define_>>

\* GenerateExperimentsSrc(output_file, header_file_path, mode) at time now
CallGenerateExperimentsSrcAt ==
    /\ \E mode \in ModeInputs, io \in IoInputs, now \in GenNowInputs,
          header_file_path \in HeaderFilePathInputs, indeterminate \in BOOLEAN :
          LET out == GenerateExperimentsSrc(experiment_definitions_, platforms_define_, mode, io)
              rendered == GenerateExperimentsSrcContents(experiment_definitions_,
                                                         platforms_define_, mode) = "contents"
          IN  last' = [op |-> "GenerateExperimentsSrc", mode |-> mode, io |-> io, now |-> now,
                       header_file_path |-> header_file_path,
                       status |-> out.status, write_attempts |-> out.write_attempts,
                       rendered |-> rendered,
                       contents |-> IF rendered
                                    THEN GenerateSource(experiment_definitions_,
                                                        platforms_define_, header_file_path,
                                                        mode, now, indeterminate)
                                    ELSE <<>>]
    /\ UNCHANGED <<experiment, experiment_definitions_, platforms_define_>>

NextGen == CallGenerateExperimentsHdrAt \/ CallGenerateExperimentsSrcAt

SpecGen == InitGen /\ [][NextGen]_vars

----------------------------------------------------------------------------
(* Claims on ExperimentDefinition::AddRolloutSpecification (SpecDef) *)

AllPlatforms == {"ios", "posix", "windows"}

AfterAddRollout == last.op = "AddRolloutSpecification"

\* C1: after a successful AddRolloutSpecification on an experiment that has
\* requirements (its own from before the call, or the ones the specification
\* lists), every platform of the platform table has default "debug" and as
\* constraint the accumulated requirement names joined by ", ", whatever
\* default_value or platform_value the specification gave.
C1_RequirementsForceDebug ==
    (AfterAddRollout /\ last.result
        /\ last.before.requires_ \o last.rollout.requirements # <<>>)
    => \A p \in DOMAIN last.platforms_define :
          /\ default_value(experiment, p) = "debug"
          /\ additional_constraints(experiment, p) =
                StrJoin(last.before.requires_ \o last.rollout.requirements, ", ")

C1_Witness ==
    /\ AfterAddRollout /\ last.result
    /\ last.before.requires_ = <<"qux">>
    /\ last.rollout.requirements = <<"bar">>
    /\ last.rollout.default_value = "true"
    /\ DOMAIN last.platforms_define = AllPlatforms
    /\ \A p \in AllPlatforms : default_value(experiment, p) = "debug"
    /\ additional_constraints(experiment, "windows") = "qux, bar"

\* C2: on an experiment without error and without requirements, a matching
\* specification with no requirements and a non-empty default_value v succeeds,
\* and then every platform of the table has default v and constraint "".
C2_UniformDefault ==
    (AfterAddRollout
        /\ ~last.before.error_ /\ last.before.requires_ = <<>>
        /\ last.rollout.name = last.before.name_
        /\ last.rollout.requirements = <<>>
        /\ last.rollout.default_value # "")
    => /\ last.result
       /\ \A p \in DOMAIN last.platforms_define :
             /\ default_value(experiment, p) = last.rollout.default_value
             /\ additional_constraints(experiment, p) = ""

C2_Witness ==
    /\ AfterAddRollout /\ last.result
    /\ ~last.before.error_ /\ last.before.requires_ = <<>>
    /\ last.before.defaults_ = EmptyMap
    /\ last.rollout.requirements = <<>>
    /\ last.rollout.default_value = "true"
    /\ last.rollout.platform_value = EmptyMap
    /\ DOMAIN last.platforms_define = AllPlatforms
    /\ \A p \in AllPlatforms : default_value(experiment, p) = "true"

BothValuesEmpty(rollout) == rollout.default_value = "" /\ rollout.platform_value = EmptyMap

NeverValid(e) == \A check_expiry \in BOOLEAN, now \in NowInputs :
                    ~IsValid(e, check_expiry, now).result

\* C6 as stated: a specification with default_value and platform_value both
\* empty makes AddRolloutSpecification fail and leaves error_ set, so that
\* IsValid is false afterwards for either check_expiry.
C6_AsStated ==
    (AfterAddRollout /\ BothValuesEmpty(last.rollout))
    => (~last.result /\ experiment.error_ /\ NeverValid(experiment))

\* C6 amended: such a specification always makes the call fail; error_ is set
\* afterwards (and IsValid false for either check_expiry) when the
\* specification names this experiment or the experiment carried an error
\* already; a specification of another name is refused before the check and
\* leaves the object as it was.
C6_BothEmptyFails ==
    (AfterAddRollout /\ BothValuesEmpty(last.rollout))
    => /\ ~last.result
       /\ (last.rollout.name = last.before.name_ \/ last.before.error_)
             => (experiment.error_ /\ NeverValid(experiment))
       /\ (last.rollout.name # last.before.name_) => experiment = last.before

C6_Witness ==
    /\ AfterAddRollout /\ BothValuesEmpty(last.rollout)
    /\ ~last.before.error_
    /\ \E now \in NowInputs : IsValid(last.before, TRUE, now).result
    /\ last.rollout.name = last.before.name_
    /\ ~last.result
    /\ experiment.error_

\* the call is refused at the head of AddRolloutSpecification
Refused == last.before.error_ \/ last.rollout.name # last.before.name_

\* C15: a refused AddRolloutSpecification (the experiment carries an error
\* already, or the specification has another name) returns failure and leaves
\* the object, with its error flag, requires, defaults and additional
\* constraints, as it was; so an error flag that was set stays set and every
\* merge after it fails.
C15_RefusedLeavesUnchanged ==
    (AfterAddRollout /\ Refused)
    => /\ ~last.result
       /\ experiment.error_ = last.before.error_
       /\ experiment.requires_ = last.before.requires_
       /\ experiment.defaults_ = last.before.defaults_
       /\ experiment.additional_constraints_ = last.before.additional_constraints_
       /\ last.before.error_ => experiment.error_

C15_Witness ==
    /\ AfterAddRollout
    /\ last.before.error_
    /\ last.before.name_ = "foo" /\ last.before.description_ # ""
    /\ last.before.requires_ = <<"bar">>
    /\ last.rollout.name = "foo"
    /\ last.rollout.default_value = "true"
    /\ last.rollout.requirements = <<"bar">>
    /\ DOMAIN last.platforms_define = AllPlatforms
    /\ ~last.result
    /\ experiment = last.before

\* the specification has no default_value and a platform_value that lacks a
\* platform of the table
MissingPlatform ==
    /\ last.rollout.default_value = ""
    /\ last.rollout.platform_value # EmptyMap
    /\ \E p \in DOMAIN last.platforms_define : p \notin DOMAIN last.rollout.platform_value

HoldsEveryPlatform(e, platforms_define) ==
    \A p \in DOMAIN platforms_define :
        p \in DOMAIN e.defaults_ /\ p \in DOMAIN e.additional_constraints_

\* C16 as stated: a specification without default_value whose platform_value
\* lacks a platform of the table makes the call fail and sets the error flag;
\* after a successful call defaults and additional constraints hold an entry
\* for every platform of the table.
C16_AsStated ==
    AfterAddRollout
    => /\ MissingPlatform => (~last.result /\ experiment.error_)
       /\ last.result => HoldsEveryPlatform(experiment, last.platforms_define)

\* C16 amended: such a specification always makes the call fail; the error
\* flag is set afterwards when the specification names this experiment or the
\* experiment carried an error already, while a specification of another name
\* is refused before the platform loop and leaves the object as it was; after
\* a successful call defaults and additional constraints hold an entry for
\* every platform of the table.
C16_MissingPlatformFails ==
    AfterAddRollout
    => /\ MissingPlatform
             => /\ ~last.result
                /\ (last.rollout.name = last.before.name_ \/ last.before.error_)
                      => experiment.error_
                /\ (last.rollout.name # last.before.name_) => experiment = last.before
       /\ last.result => HoldsEveryPlatform(experiment, last.platforms_define)

C16_Witness ==
    /\ AfterAddRollout /\ MissingPlatform
    /\ ~last.before.error_
    /\ last.rollout.name = last.before.name_
    /\ DOMAIN last.rollout.platform_value = {"posix"}
    /\ DOMAIN last.platforms_define = AllPlatforms
    /\ ~last.result
    /\ experiment.error_
    /\ ~HoldsEveryPlatform(experiment, last.platforms_define)

----------------------------------------------------------------------------
(* Claims on construction and IsValid (SpecValid) *)

AfterIsValid == last.op = "IsValid"

\* C7: for an experiment without recorded error whose expiry is the date
\* y-m-d written YYYY-MM-DD, IsValid returns false, for check_expiry true and
\* false alike, exactly when m is 11 or 12, or m is 1 and d < 15.
C7_FreezeWindow ==
    AfterIsValid =>
        \A y \in ExpiryYears, m \in 1..12, d \in 1..31 :
            (d <= DaysInMonth(y, m) /\ experiment.expiry_ = DateStr(y, m, d)
                /\ ~experiment.error_)
            => (last.result = ~(m = 11 \/ m = 12 \/ (m = 1 /\ d < 15)))

C7_Witness ==
    /\ AfterIsValid /\ ~experiment.error_
    /\ experiment.expiry_ = DateStr(2025, 1, 10)
    /\ last.check_expiry
    /\ ~last.result

\* C8: an experiment constructed with an empty name, description, owner or
\* expiry is never valid, for either check_expiry.
C8_EmptyFieldInvalid ==
    (AfterIsValid
        /\ (experiment.name_ = "" \/ experiment.description_ = ""
                \/ experiment.owner_ = "" \/ experiment.expiry_ = <<>>))
    => ~last.result

C8_Witness ==
    /\ AfterIsValid /\ ~last.result /\ last.check_expiry
    /\ experiment.name_ = "foo" /\ experiment.description_ = "desc"
    /\ experiment.owner_ = ""
    /\ experiment.expiry_ = DateStr(2025, 3, 1)

\* C9: monitoring_experiment with expiry never-ever (and a description and an
\* owner) is valid, with no date parsed; with any other expiry the constructor
\* recorded an error and IsValid is false.
C9_MonitoringNeverExpires ==
    (AfterIsValid /\ experiment.name_ = "monitoring_experiment")
    => IF experiment.expiry_ = NeverEver
       THEN (experiment.description_ # "" /\ experiment.owner_ # "")
               => (last.result /\ ~ParseTime(experiment.expiry_).ok)
       ELSE experiment.error_ /\ ~last.result

C9_Witness ==
    /\ AfterIsValid /\ experiment.name_ = "monitoring_experiment"
    /\ experiment.expiry_ = NeverEver
    /\ experiment.description_ # "" /\ experiment.owner_ # ""
    /\ last.check_expiry /\ last.result

\* C13: warnings never change validity: the value IsValid returned equals the
\* value it returns on the same experiment with the other check_expiry, at
\* every current time, also when the expiry is in the past or more than 180
\* days ahead.
C13_WarningsKeepValidity ==
    AfterIsValid
    => \A now \in NowInputs :
          IsValid(experiment, ~last.check_expiry, now).result = last.result

C13_Witness ==
    /\ AfterIsValid /\ last.check_expiry
    /\ "expired" \in last.warnings
    /\ last.result
    /\ \E now \in NowInputs :
          /\ "far_future" \in IsValid(experiment, TRUE, now).warnings
          /\ IsValid(experiment, TRUE, now).result

----------------------------------------------------------------------------
(* Claims on ExperimentsCompiler (Spec) *)

AfterCompilerAddExperimentDefinition == last.op = "AddExperimentDefinition" /\ last.result.ok

AfterCompilerAddRolloutSpecification == last.op = "AddRolloutSpecification" /\ last.result.ok

AfterGenerate == last.op \in {"GenerateExperimentsHdr", "GenerateExperimentsSrc"}

\* the mappings among the nodes of a document
Mappings(nodes) == {i \in 1..Len(nodes) : nodes[i].is_map}

\* the ExperimentDefinition AddExperimentDefinition builds from a mapping
BuiltFrom(value) ==
    ExperimentDefinition(value.name, value.description, value.owner, value.expiry,
                         value.uses_polling, value.allow_in_fuzzing_config,
                         value.test_tags, <<>>)

C4_RequirementsKept ==
    (AfterCompilerAddRolloutSpecification /\ last.status = "OK") =>
        LET nodes == last.result.value
        IN  \A i \in Mappings(nodes) :
               IsDefined(nodes[i], "requirements") =>
                  \A k \in 1..Len(nodes[i].requirements) :
                     nodes[i].requirements[k]
                        \in Range(experiment_definitions_[nodes[i].name].requires_)

\* C5: AddRolloutSpecification of the compiler fails whenever a mapping of the
\* document names an experiment that had no entry before the call.
C5_UnknownExperimentFails ==
    (AfterCompilerAddRolloutSpecification
        /\ \E i \in Mappings(last.result.value) :
              last.result.value[i].name \notin DOMAIN last.before)
    => last.status = "INVALID_ARGUMENT"

C5_Witness ==
    /\ AfterCompilerAddRolloutSpecification
    /\ Len(last.result.value) = 1
    /\ last.result.value[1].is_map
    /\ last.result.value[1].name = "bar"
    /\ last.result.value[1].default_value = "true"
    /\ "bar" \notin DOMAIN last.before
    /\ "foo" \in DOMAIN last.before
    /\ last.status = "INVALID_ARGUMENT"

SupportedModes == {"grpc_google3", "grpc_oss_production", "grpc_oss_test"}

\* C10 as stated: with an unsupported mode the Generate functions fail without
\* a write; with a supported mode the write is attempted exactly once.
C10_AsStated ==
    AfterGenerate =>
        IF last.mode \in SupportedModes
        THEN last.write_attempts = 1
        ELSE last.status # "OK" /\ last.write_attempts = 0

\* some experiment's resolved default, on a platform the output has an arm
\* for, is no key of the reference tables
UnknownDefaultToken ==
    \E n \in DOMAIN experiment_definitions_,
       p \in (DOMAIN platforms_define_) \cup {"posix"} :
        default_value(experiment_definitions_[n], p) \notin Tokens

\* C10 amended: with an unsupported mode the Generate functions return a
\* failure status without a write; with a supported mode the write is
\* attempted exactly once when every resolved default is a key of the
\* reference tables, and not at all otherwise (the lookup throws before the
\* write step).
C10_WriteOnlyAfterRendering ==
    AfterGenerate =>
        IF last.mode \in SupportedModes
        THEN last.write_attempts = (IF UnknownDefaultToken THEN 0 ELSE 1)
        ELSE last.status = "INVALID_ARGUMENT" /\ last.write_attempts = 0

C10_Witness ==
    /\ AfterGenerate
    /\ last.mode = "bogus_mode"
    /\ DOMAIN experiment_definitions_ # {}
    /\ ~UnknownDefaultToken
    /\ last.status = "INVALID_ARGUMENT" /\ last.write_attempts = 0

\* C17: after any calls of the compiler's AddExperimentDefinition and
\* AddRolloutSpecification every entry of experiment_definitions_ has the name
\* it is stored under, and a rollout document adds no entry: the keys after an
\* AddRolloutSpecification are the keys before it.
C17_KeysAreDeclaredNames ==
    /\ \A k \in DOMAIN experiment_definitions_ : experiment_definitions_[k].name_ = k
    /\ last.op = "AddRolloutSpecification"
          => DOMAIN experiment_definitions_ = DOMAIN last.before

----------------------------------------------------------------------------
(* Claims on the generated text (SpecGen) *)

AfterSourceRendered == last.op = "GenerateExperimentsSrc" /\ last.rendered

\* the places of the output where a metadata table opens
TableStarts(contents) ==
    {i \in DOMAIN contents :
        contents[i] \in {"const ExperimentMetadata g_experiment_metadata[] = {\n",
                         "const ExperimentMetadata g_test_experiment_metadata[] = {\n"}}

\* the rows of the table opened at place i: the pieces up to the closing brace
TableRows(contents, i) ==
    LET end == CHOOSE j \in (i + 1)..Len(contents) :
                   /\ contents[j] = "};\n\n"
                   /\ \A k \in (i + 1)..(j - 1) : contents[k] # "};\n\n"
    IN  SubSeq(contents, i + 1, end - 1)

\* the row the claim describes for an experiment: the array reference is the
\* null token, or the array declared under the experiment's own name
RowAsClaimed(e, platform) ==
    "  {" \o e.name_ \o ", description_" \o e.name_
          \o ", additional_constraints_" \o e.name_ \o ", "
          \o (IF e.requires_ = <<>> THEN "nullptr" ELSE "required_experiments_" \o e.name_)
          \o ", " \o Str(NatStr(Len(e.requires_)))
          \o ", " \o defaults_[default_value(e, platform)]
          \o ", " \o (IF e.allow_in_fuzzing_config_ THEN "true" ELSE "false") \o "},"

\* C11: the generated source has one metadata table for each platform arm,
\* each with exactly one row for each experiment, in map order; the row names
\* the null token when the experiment has no requirements and else the
\* requirements array declared for that experiment, then the number of its
\* requirements, its default expression and its fuzzing flag.
C11_RowsReferOwnArray ==
    AfterSourceRendered
    => LET starts == TableStarts(last.contents)
           arms == RenderedPlatforms(platforms_define_)
           es == Experiments(experiment_definitions_)
       IN  /\ Cardinality(starts) = Len(arms)
           /\ \A i \in starts :
                 LET platform == arms[Cardinality({j \in starts : j <= i})]
                 IN  TableRows(last.contents, i)
                        = [n \in 1..Len(es) |-> RowAsClaimed(es[n], platform)]

AnyRequires == \E n \in DOMAIN experiment_definitions_ :
                  experiment_definitions_[n].requires_ # <<>>

\* C14: the generated source has the stdint.h include exactly once, before
\* the include of the header, when some experiment of the map has
\* requirements, and has none when no experiment has (the empty map included).
C14_StdintIffRequires ==
    AfterSourceRendered
    => LET stdint == {i \in DOMAIN last.contents :
                         last.contents[i] = "#include <stdint.h>\n\n"}
           header == {i \in DOMAIN last.contents :
                         last.contents[i] =
                            "#include \"" \o header_file_path_without_github(
                                                last.header_file_path) \o "\"\n"}
       IN  IF AnyRequires
           THEN /\ Cardinality(stdint) = 1
                /\ header # {}
                /\ \A i \in stdint, j \in header : i < j
           ELSE stdint = {}

\* the header was rendered by this call and by the call before it, for the
\* same experiment map, tables and mode
AfterHeaderRenderedTwice ==
    last.op = "GenerateExperimentsHdr" /\ last.rendered /\ last.previous.rendered

====
